---- MODULE Spec2Model ----
(***************************************************************************)
(* Binance P2P alert bot: the fetch-filter-notify pipeline of              *)
(* src/p2p_fetcher.py and the handlers of src/main.py.                     *)
(*                                                                         *)
(* Text is a sequence of one-character strings, so that float() and int()  *)
(* are computed character by character.  A price is a fixed-point number   *)
(* in units of 1/Scale INR; every price text of the model has at most two  *)
(* fractional digits, and the alphabet has no exponent, "inf", "nan",      *)
(* underscore or blank, the other spellings Python's float() accepts.      *)
(***************************************************************************)
EXTENDS Integers, Sequences, FiniteSets, TLC

VARIABLES market, pending, ret

vars == <<market, pending, ret>>

(* ------------------------------ bounds -------------------------------- *)

\* longest order book drawn over the full set of price fields
MaxLen == 3
\* largest limit / count handed to the two pure pipeline steps
MaxLimit == 4
\* order books longer than the default limit: DefaultLimit+1 .. DefaultLimit+MaxExtra
MaxExtra == 1

(* ------------------------- program constants -------------------------- *)

DEFAULT_THRESHOLD == 91
DefaultLimit == 5
DefaultCount == 10
MaxCount == 50
HighThreshold == 999999
\* fixed-point unit of a parsed price (two fractional digits)
Scale == 100

TELEGRAM_CHAT_ID == "dest_chat"
UserChat == "user_chat"
NoChat == "no_chat"

(* ------------------------------ helpers -------------------------------- *)

Min(a, b) == IF a <= b THEN a ELSE b

Max(a, b) == IF a >= b THEN a ELSE b

Reverse(s) == [i \in 1..Len(s) |-> s[Len(s) + 1 - i]]

\* Python's s[:c]
SliceTo(s, c) ==
    IF c >= 0 THEN SubSeq(s, 1, Min(c, Len(s)))
    ELSE SubSeq(s, 1, Max(0, Len(s) + c))

(* ------------------------- float() and int() --------------------------- *)

DigitChars == <<"0", "1", "2", "3", "4", "5", "6", "7", "8", "9">>

IsDigit(c) == \E i \in DOMAIN DigitChars : DigitChars[i] = c

DigitVal(c) == (CHOOSE i \in DOMAIN DigitChars : DigitChars[i] = c) - 1

AllDigits(s) == \A i \in DOMAIN s : IsDigit(s[i])

RECURSIVE DigitsVal(_)
DigitsVal(s) ==
    IF s = <<>> THEN 0
    ELSE DigitsVal(SubSeq(s, 1, Len(s) - 1)) * 10 + DigitVal(s[Len(s)])

HasSign(s) == Len(s) > 0 /\ s[1] \in {"-", "+"}

Unsigned(s) == IF HasSign(s) THEN Tail(s) ELSE s

Signed(s, v) == IF HasSign(s) /\ s[1] = "-" THEN 0 - v ELSE v

\* the fraction digits as hundredths: "5" -> 50, "05" -> 5, "" -> 0
FracVal(fp) ==
    IF Len(fp) = 0 THEN 0
    ELSE IF Len(fp) = 1 THEN DigitVal(fp[1]) * 10
    ELSE DigitVal(fp[1]) * 10 + DigitVal(fp[2])

ValueError == [ok |-> FALSE, val |-> 0]

\* float(text): [ok |-> parsed, val |-> value * Scale]; not ok is ValueError
ParseFloat(s) ==
    LET body == Unsigned(s)
        dots == {i \in DOMAIN body : body[i] = "."}
    IN  IF dots = {} THEN
            IF Len(body) > 0 /\ AllDigits(body)
            THEN [ok |-> TRUE, val |-> Signed(s, DigitsVal(body) * Scale)]
            ELSE ValueError
        ELSE IF Cardinality(dots) = 1 THEN
            LET d  == CHOOSE i \in dots : TRUE
                ip == SubSeq(body, 1, d - 1)
                fp == SubSeq(body, d + 1, Len(body))
            IN  IF AllDigits(ip) /\ AllDigits(fp) /\ Len(ip) + Len(fp) > 0
                THEN [ok |-> TRUE,
                      val |-> Signed(s, DigitsVal(ip) * Scale + FracVal(fp))]
                ELSE ValueError
        ELSE ValueError

\* int(text): [ok |-> parsed, val |-> value]; not ok is ValueError
ParseInt(s) ==
    LET body == Unsigned(s)
    IN  IF Len(body) > 0 /\ AllDigits(body)
        THEN [ok |-> TRUE, val |-> Signed(s, DigitsVal(body))]
        ELSE ValueError

\* text.replace(',', '')
RemoveCommas(s) == SelectSeq(s, LAMBDA c : c # ",")

(* ------------------------------ listings ------------------------------ *)

\* the "price" entry of a listing's "adv" object: absent, or a text
Absent == [present |-> FALSE, text |-> <<>>]

Text(t) == [present |-> TRUE, text |-> t]

PriceFields ==
    { Absent, Text(<<>>), Text(<<"b", "a", "d">>),
      Text(<<"8", "0">>), Text(<<"9", "1">>), Text(<<"9", "5", ".", "5">>) }

\* the price fields of the order books longer than the default limit
LongPriceFields == { Text(<<"8", "0">>), Text(<<"9", "5", ".", "5">>) }

\* the price fields of the short order books the handlers run on
BotPriceFields ==
    { Text(<<"b", "a", "d">>), Text(<<"8", "0">>), Text(<<"9", "5", ".", "5">>) }

\* an order book: listing i is the i-th row upstream returned
Book(prices) == [i \in 1..Len(prices) |-> [id |-> i, price |-> prices[i]]]

BooksOver(fields, lo, hi) ==
    UNION { { Book(ps) : ps \in [1..n -> fields] } : n \in lo..hi }

RichMarkets == BooksOver(PriceFields, 0, MaxLen)

LongMarkets == BooksOver(LongPriceFields, DefaultLimit + 1, DefaultLimit + MaxExtra)

BotMarkets == BooksOver(BotPriceFields, 0, MaxLen) \cup LongMarkets

Thresholds == { 90 * Scale, DEFAULT_THRESHOLD * Scale, HighThreshold * Scale }

(* ------------------- get_top_sellers_under_threshold ------------------- *)

\* `if price_str:` - None and the empty text are falsy
Truthy(price_str) == price_str.present /\ price_str.text # <<>>

\* as if the `except ValueError` clause were missing
OnValueError_propagates(filtered, ad) ==
    [acc |-> filtered, cont |-> FALSE, raised |-> TRUE]

\* `except ValueError: continue` - the listing is dropped, line 36 is skipped
OnValueError(filtered, ad) == [acc |-> filtered, cont |-> TRUE, raised |-> FALSE]

\* lines 27-35 for one listing: the list so far, whether `continue` ran, and
\* whether an exception left the loop
FilterStep(filtered, ad, threshold) ==
    LET price_str == ad.price
    IN  IF Truthy(price_str) THEN
            LET price == ParseFloat(price_str.text)
            IN  IF price.ok THEN
                    [acc |-> IF price.val <= threshold
                             THEN Append(filtered, ad) ELSE filtered,
                     cont |-> FALSE, raised |-> FALSE]
                ELSE OnValueError(filtered, ad)
        ELSE [acc |-> filtered, cont |-> FALSE, raised |-> FALSE]

\* the break one listing late
LimitReached_late(filtered, limit) == Len(filtered) = limit + 1

\* `if len(filtered_ads) == limit: break`
LimitReached(filtered, limit) == Len(filtered) = limit

RECURSIVE FilterLoop(_, _, _, _, _)
FilterLoop(ads, i, filtered, threshold, limit) ==
    IF i > Len(ads) THEN [raised |-> FALSE, value |-> filtered]
    ELSE LET st == FilterStep(filtered, ads[i], threshold)
         IN  IF st.raised THEN [raised |-> TRUE, value |-> <<>>]
             ELSE IF ~st.cont /\ LimitReached(st.acc, limit)
                  THEN [raised |-> FALSE, value |-> st.acc]
             ELSE FilterLoop(ads, i + 1, st.acc, threshold, limit)

\* the loop over the fetched rows, lines 25-38
FilterAds(ads, threshold, limit) == FilterLoop(ads, 1, <<>>, threshold, limit)

\* fetch_binance_p2p: the "data" array of the response, or an exception
fetch_binance_p2p(fetchOk) ==
    IF fetchOk THEN [raised |-> FALSE, value |-> market]
    ELSE [raised |-> TRUE, value |-> <<>>]

get_top_sellers_under_threshold(fetchOk, threshold, limit) ==
    LET ads == fetch_binance_p2p(fetchOk)
    IN  IF ads.raised THEN ads ELSE FilterAds(ads.value, threshold, limit)

(* ------------------ the ranking of format_and_send_top_prices ---------- *)

\* key=lambda x: float(x.get("adv", {}).get("price", 0))
SortKey(ad) ==
    IF ad.price.present THEN ParseFloat(ad.price.text) ELSE [ok |-> TRUE, val |-> 0]

\* x goes after every element whose key is <= its own (stable)
InsertAsc(sorted, x) ==
    LET n == Cardinality({i \in DOMAIN sorted : SortKey(sorted[i]).val <= SortKey(x).val})
    IN  SubSeq(sorted, 1, n) \o <<x>> \o SubSeq(sorted, n + 1, Len(sorted))

RECURSIVE SortAsc(_)
SortAsc(s) ==
    IF s = <<>> THEN <<>>
    ELSE InsertAsc(SortAsc(SubSeq(s, 1, Len(s) - 1)), s[Len(s)])

\* sorted(..., reverse=True): reverse, stable ascending sort, reverse again
SortedReverse(s) == Reverse(SortAsc(Reverse(s)))

\* lines 73-74: a key that float() rejects raises out of sorted()
RankTop(sellers, count) ==
    IF \E i \in DOMAIN sellers : ~SortKey(sellers[i]).ok
    THEN [raised |-> TRUE, value |-> <<>>]
    ELSE [raised |-> FALSE, value |-> SliceTo(SortedReverse(sellers), count)]

(* ------------------------------ messages ------------------------------- *)

\* bot.send_message: call number k of a handler run raises when k = sendFail
\* (sendFail = 0: every call succeeds); the call is recorded either way
SendMessage(sent, chat_id, message, sendFail) ==
    LET k == Len(sent) + 1
    IN  [sent |-> Append(sent, [chat |-> chat_id, kind |-> message.kind,
                                items |-> message.items, param |-> message.param,
                                delivered |-> k # sendFail]),
         raised |-> k = sendFail]

\* an empty list rendered as a list with no entries
SellersMessage_empty_list(sellers, threshold) ==
    [kind |-> "sellers", items |-> sellers, param |-> threshold]

\* the text format_and_send_sellers builds, lines 30-50
SellersMessage(sellers, threshold) ==
    IF sellers = <<>>
    THEN [kind |-> "no_sellers", items |-> <<>>, param |-> threshold]
    ELSE [kind |-> "sellers", items |-> sellers, param |-> threshold]

\* the send of lines 52-61: an exception of send_message is logged, not raised
format_and_send_sellers(sent, sellers, threshold, chat_id, sendFail) ==
    LET r == SendMessage(sent, chat_id, SellersMessage(sellers, threshold), sendFail)
    IN  [sent |-> r.sent, errors |-> IF r.raised THEN 1 ELSE 0,
         raised |-> FALSE, fetch |-> "ok"]

format_and_send_top_prices(sent, sellers, chat_id, count, sendFail) ==
    IF sellers = <<>> THEN
        LET r == SendMessage(sent, chat_id,
                     [kind |-> "no_data", items |-> <<>>, param |-> count], sendFail)
        IN  [sent |-> r.sent, errors |-> IF r.raised THEN 1 ELSE 0,
             raised |-> FALSE, fetch |-> "ok"]
    ELSE
        LET top_sellers == RankTop(sellers, count)
        IN  IF top_sellers.raised
            THEN [sent |-> sent, errors |-> 0, raised |-> TRUE, fetch |-> "ok"]
            ELSE LET r == SendMessage(sent, chat_id,
                              [kind |-> "top_prices", items |-> top_sellers.value,
                               param |-> count], sendFail)
                 IN  [sent |-> r.sent, errors |-> IF r.raised THEN 1 ELSE 0,
                      raised |-> FALSE, fetch |-> "ok"]

(* --------------------------- periodic tasks ---------------------------- *)

\* as if the task had no try/except
Caught_reraises(r) == r

\* `except Exception as e: logging.error(...)` of the two periodic tasks
Caught(r) == IF r.raised THEN [r EXCEPT !.raised = FALSE, !.errors = @ + 1] ELSE r

FetchFailed == [sent |-> <<>>, errors |-> 0, raised |-> TRUE, fetch |-> "failed"]

periodic_send_default(fetchOk, sendFail) ==
    LET sellers == get_top_sellers_under_threshold(
                       fetchOk, DEFAULT_THRESHOLD * Scale, DefaultLimit)
    IN  Caught(IF sellers.raised THEN FetchFailed
               ELSE format_and_send_sellers(<<>>, sellers.value,
                        DEFAULT_THRESHOLD * Scale, TELEGRAM_CHAT_ID, sendFail))

\* the whole filtered list instead of its first listing
FirstSeller_all(sellers) == sellers

\* sellers[:1]
FirstSeller(sellers) == SliceTo(sellers, 1)

threshold_check_task(fetchOk, sendFail) ==
    LET sellers == get_top_sellers_under_threshold(
                       fetchOk, DEFAULT_THRESHOLD * Scale, DefaultLimit)
    IN  Caught(IF sellers.raised THEN FetchFailed
               ELSE IF sellers.value # <<>>
               THEN format_and_send_sellers(<<>>, FirstSeller(sellers.value),
                        DEFAULT_THRESHOLD * Scale, TELEGRAM_CHAT_ID, sendFail)
               ELSE [sent |-> <<>>, errors |-> 0, raised |-> FALSE, fetch |-> "ok"])

(* ------------------------------ commands ------------------------------- *)

NoMessage(kind, param) == [kind |-> kind, items |-> <<>>, param |-> param]

\* a handler that stopped before the fetch
Stopped(sent, raised) ==
    [sent |-> sent, errors |-> 0, raised |-> raised, fetch |-> "not_reached"]

\* lines 142-154: the threshold of /top5 and whether the argument was refused
Top5Threshold(update) ==
    LET parsed_arg == ParseFloat(RemoveCommas(update.arg))
    IN  IF update.hasArg /\ parsed_arg.ok
        THEN [value |-> parsed_arg.val, invalid |-> FALSE]
        ELSE [value |-> DEFAULT_THRESHOLD * Scale, invalid |-> update.hasArg]

top5_command(update, fetchOk, sendFail) ==
    IF update.chat = NoChat THEN Stopped(<<>>, FALSE)
    ELSE
    LET chat_id == update.chat
        threshold == Top5Threshold(update)
        warned == IF threshold.invalid
                  THEN SendMessage(<<>>, chat_id, NoMessage("warning", 0), sendFail)
                  ELSE [sent |-> <<>>, raised |-> FALSE]
        progress == SendMessage(warned.sent, chat_id,
                        NoMessage("progress", threshold.value), sendFail)
        sellers == get_top_sellers_under_threshold(fetchOk, threshold.value, DefaultLimit)
        reply == SendMessage(progress.sent, chat_id, NoMessage("error", 0), sendFail)
    IN  IF warned.raised THEN Stopped(warned.sent, TRUE)
        ELSE IF progress.raised THEN Stopped(progress.sent, TRUE)
        ELSE IF sellers.raised
             THEN [sent |-> reply.sent, errors |-> 1, raised |-> reply.raised,
                   fetch |-> "failed"]
        ELSE format_and_send_sellers(progress.sent, sellers.value, threshold.value,
                                     chat_id, sendFail)

\* the range test with 0 let through
ClampCount_zero_allowed(count) ==
    IF count < 0 \/ count > MaxCount THEN DefaultCount ELSE count

\* `if count <= 0 or count > 50: count = 10`
ClampCount(count) ==
    IF count <= 0 \/ count > MaxCount THEN DefaultCount ELSE count

\* lines 179-190: the count of /topprices and whether the argument was refused
ToppricesCount(update) ==
    LET parsed == ParseInt(update.arg)
    IN  IF update.hasArg /\ parsed.ok
        THEN [value |-> ClampCount(parsed.val), invalid |-> FALSE]
        ELSE [value |-> DefaultCount, invalid |-> update.hasArg]

topprices_command(update, fetchOk, sendFail) ==
    IF update.chat = NoChat THEN Stopped(<<>>, FALSE)
    ELSE
    LET chat_id == update.chat
        count == ToppricesCount(update)
        warned == IF count.invalid
                  THEN SendMessage(<<>>, chat_id, NoMessage("warning", 0), sendFail)
                  ELSE [sent |-> <<>>, raised |-> FALSE]
        progress == SendMessage(warned.sent, chat_id,
                        NoMessage("progress", count.value), sendFail)
        sellers == get_top_sellers_under_threshold(
                       fetchOk, HighThreshold * Scale, DefaultLimit)
        done == format_and_send_top_prices(progress.sent, sellers.value, chat_id,
                                           count.value, sendFail)
        failed == IF sellers.raised THEN progress.sent ELSE done.sent
        reply == SendMessage(failed, chat_id, NoMessage("error", 0), sendFail)
    IN  IF warned.raised THEN Stopped(warned.sent, TRUE)
        ELSE IF progress.raised THEN Stopped(progress.sent, TRUE)
        ELSE IF sellers.raised \/ done.raised
             THEN [sent |-> reply.sent, errors |-> 1, raised |-> reply.raised,
                   fetch |-> IF sellers.raised THEN "failed" ELSE "ok"]
        ELSE done

(* ------------------------------- state --------------------------------- *)

NoUpdate == [cmd |-> "none", chat |-> NoChat, hasArg |-> FALSE, arg |-> <<>>]

\* what the last operation was given and what it did
Blank ==
    [op |-> "none", threshold |-> 0, limit |-> 0, count |-> 0,
     update |-> NoUpdate, raised |-> FALSE,
     value |-> <<>>, sent |-> <<>>, errors |-> 0, fetch |-> "not_reached"]

\* the filter applied to the order book
Filter ==
    \E threshold \in Thresholds, limit \in 0..MaxLimit :
        LET r == FilterAds(market, threshold, limit)
        IN  /\ ret' = [Blank EXCEPT !.op = "filter", !.threshold = threshold,
                                    !.limit = limit, !.raised = r.raised,
                                    !.value = r.value]
            /\ UNCHANGED <<market, pending>>

\* the ranking applied to the order book
Rank ==
    \E count \in 0..MaxLimit :
        LET r == RankTop(market, count)
        IN  /\ ret' = [Blank EXCEPT !.op = "rank", !.count = count,
                                    !.raised = r.raised, !.value = r.value]
            /\ UNCHANGED <<market, pending>>

InitFilter == market \in RichMarkets /\ pending = NoUpdate /\ ret = Blank

SpecFilter == InitFilter /\ [][Filter]_vars

SpecRank == InitFilter /\ [][Rank]_vars

(* ------------------------------ the bot -------------------------------- *)

Arg(cmd, text) == [cmd |-> cmd, chat |-> UserChat, hasArg |-> TRUE, arg |-> text]

NoArg(cmd, chat) == [cmd |-> cmd, chat |-> chat, hasArg |-> FALSE, arg |-> <<>>]

Updates ==
    { NoArg("top5", UserChat), NoArg("top5", NoChat),
      Arg("top5", <<"9", "0">>), Arg("top5", <<"1", ",", "0", "0", "0">>),
      Arg("top5", <<"a", "b", "c">>),
      NoArg("topprices", UserChat), NoArg("topprices", NoChat),
      Arg("topprices", <<"3">>), Arg("topprices", <<"1", "5">>),
      Arg("topprices", <<"5", "0">>), Arg("topprices", <<"5", "1">>),
      Arg("topprices", <<"0">>), Arg("topprices", <<"-", "2">>),
      Arg("topprices", <<"a", "b", "c">>), Arg("topprices", <<"2", ".", "5">>) }

\* which call of send_message raises in a handler run: none, or the k-th
SendFaults == {0, 1, 2, 3}

Ran(op, update, r) ==
    [Blank EXCEPT !.op = op, !.update = update, !.raised = r.raised,
                  !.sent = r.sent, !.errors = r.errors, !.fetch = r.fetch]

\* a command arrives from a chat
Receive ==
    /\ pending = NoUpdate
    /\ \E update \in Updates : pending' = update
    /\ ret' = Blank
    /\ UNCHANGED market

Top5Command ==
    /\ pending.cmd = "top5"
    /\ \E fetchOk \in BOOLEAN, sendFail \in SendFaults :
           ret' = [Ran("top5", pending, top5_command(pending, fetchOk, sendFail))
                      EXCEPT !.threshold = Top5Threshold(pending).value]
    /\ pending' = NoUpdate
    /\ UNCHANGED market

ToppricesCommand ==
    /\ pending.cmd = "topprices"
    /\ \E fetchOk \in BOOLEAN, sendFail \in SendFaults :
           ret' = [Ran("topprices", pending, topprices_command(pending, fetchOk, sendFail))
                      EXCEPT !.count = ToppricesCount(pending).value]
    /\ pending' = NoUpdate
    /\ UNCHANGED market

\* one tick of the digest job
PeriodicSendDefault ==
    /\ pending = NoUpdate
    /\ \E fetchOk \in BOOLEAN, sendFail \in {0, 1} :
           ret' = Ran("periodic_send_default", NoUpdate,
                      periodic_send_default(fetchOk, sendFail))
    /\ UNCHANGED <<market, pending>>

\* one tick of the fast-alert job
ThresholdCheckTask ==
    /\ pending = NoUpdate
    /\ \E fetchOk \in BOOLEAN, sendFail \in {0, 1} :
           ret' = Ran("threshold_check_task", NoUpdate,
                      threshold_check_task(fetchOk, sendFail))
    /\ UNCHANGED <<market, pending>>

Init == market \in BotMarkets /\ pending = NoUpdate /\ ret = Blank

Next ==
    \/ Receive
    \/ Top5Command
    \/ ToppricesCommand
    \/ PeriodicSendDefault
    \/ ThresholdCheckTask

Spec == Init /\ [][Next]_vars

(* ---------------- what the price texts of the model denote ------------- *)

Numeric == { Text(<<"8", "0">>), Text(<<"9", "1">>), Text(<<"9", "5", ".", "5">>) }

\* the number a numeric price field denotes, in 1/Scale INR
Worth(field) ==
    CASE field = Text(<<"8", "0">>) -> 8000
      [] field = Text(<<"9", "1">>) -> 9100
      [] field = Text(<<"9", "5", ".", "5">>) -> 9550

Qualifies(ad, threshold) == ad.price \in Numeric /\ Worth(ad.price) <= threshold

Qualifying(ads, threshold) == SelectSeq(ads, LAMBDA ad : Qualifies(ad, threshold))

\* the price the ranking is specified to sort by: 0 when there is no number
RankWorth(ad) == IF ad.price \in Numeric THEN Worth(ad.price) ELSE 0

(* ------------------------- claims on the filter ------------------------ *)

\* C1: for every order book, threshold and limit (limit = 0 included), every
\* listing the filter returns has a price that parses to a number <= the
\* threshold, and the filter returns at most `limit` listings.
C1_UnderThresholdAtMostLimit ==
    ret.op = "filter" =>
        /\ \A i \in DOMAIN ret.value : Qualifies(ret.value[i], ret.threshold)
        /\ Len(ret.value) <= ret.limit

\* C2: for limit >= 1 the filter returns exactly the first min(limit, q)
\* qualifying listings, in upstream order.
C2_FirstQualifyingInOrder ==
    (ret.op = "filter" /\ ret.limit >= 1) =>
        LET q == Qualifying(market, ret.threshold)
        IN  /\ ~ret.raised
            /\ ret.value = SubSeq(q, 1, Min(ret.limit, Len(q)))

\* more listings qualify than the limit, and a listing that does not qualify
\* comes first
C2_Witness ==
    /\ ret.op = "filter" /\ ret.limit >= 1
    /\ Len(Qualifying(market, ret.threshold)) > ret.limit
    /\ Len(ret.value) = ret.limit
    /\ ~Qualifies(market[1], ret.threshold)

\* C3: a listing whose price is missing, empty or not a number is never in
\* the filter's result, and does not abort the batch: the call returns, and
\* while the result is short of the limit every qualifying listing of the
\* order book, those after such a listing included, is in it.
C3_UnparsableSkippedNotFatal ==
    ret.op = "filter" =>
        /\ ~ret.raised
        /\ \A i \in DOMAIN ret.value : ret.value[i].price \in Numeric
        /\ Len(ret.value) < ret.limit =>
               \A j \in DOMAIN market :
                   Qualifies(market[j], ret.threshold) =>
                       \E i \in DOMAIN ret.value : ret.value[i] = market[j]

\* a qualifying listing that follows an unparsable one was returned
C3_Witness ==
    /\ ret.op = "filter"
    /\ \E j, k \in DOMAIN market :
           /\ j < k
           /\ market[j].price = Text(<<"b", "a", "d">>)
           /\ Qualifies(market[k], ret.threshold)
           /\ \E i \in DOMAIN ret.value : ret.value[i] = market[k]

(* ------------------------- claims on the ranking ----------------------- *)

\* C4: for every order book (a missing or unparsable price counting as 0) and
\* every count C, the ranking yields min(C, |L|) listings of the book, sorted
\* non-increasing by price, equal prices in upstream order.
C4_RankSortedTruncatedStable ==
    ret.op = "rank" =>
        /\ ~ret.raised
        /\ Len(ret.value) = Min(ret.count, Len(market))
        /\ \A i \in DOMAIN ret.value : \E j \in DOMAIN market : ret.value[i] = market[j]
        /\ \A i, j \in DOMAIN ret.value :
               i < j =>
                   \/ RankWorth(ret.value[i]) > RankWorth(ret.value[j])
                   \/ /\ RankWorth(ret.value[i]) = RankWorth(ret.value[j])
                      /\ ret.value[i].id < ret.value[j].id

(* ----------------------- claims on the handlers ----------------------- *)

Ticks == {"periodic_send_default", "threshold_check_task"}

Commands == {"top5", "topprices"}

\* the calls of send_message of the last run whose text is of one of `kinds`
SentOf(kinds) == SelectSeq(ret.sent, LAMBDA m : m.kind \in kinds)

ListKinds == {"sellers", "no_sellers", "top_prices", "no_data"}

\* the listings that qualify under the default threshold, in upstream order
DefaultQualifying == Qualifying(market, DEFAULT_THRESHOLD * Scale)

\* C5: in a tick of the fast-alert task whose snapshot has no listing under
\* the default threshold no message is sent; with at least one, exactly one
\* message goes to the destination chat and it lists exactly the first
\* qualifying listing.
C5_AlertSendsFirstQualifying ==
    (ret.op = "threshold_check_task" /\ ret.fetch = "ok") =>
        IF DefaultQualifying = <<>> THEN ret.sent = <<>>
        ELSE /\ Len(ret.sent) = 1
             /\ ret.sent[1].chat = TELEGRAM_CHAT_ID
             /\ ret.sent[1].kind = "sellers"
             /\ ret.sent[1].items = <<DefaultQualifying[1]>>

\* several listings qualify, the first row does not, one alert went out
C5_Witness ==
    /\ ret.op = "threshold_check_task" /\ ret.fetch = "ok"
    /\ Len(DefaultQualifying) >= 2
    /\ ~Qualifies(market[1], DEFAULT_THRESHOLD * Scale)
    /\ Len(ret.sent) = 1 /\ ret.sent[1].delivered

\* C6: in a tick of the digest task whose fetch succeeds exactly one message
\* is sent to the destination chat; when nothing qualifies it is the
\* "No sellers found under {threshold} INR" notice, otherwise a non-empty list.
C6_DigestAlwaysOneMessage ==
    (ret.op = "periodic_send_default" /\ ret.fetch = "ok") =>
        /\ Len(ret.sent) = 1
        /\ ret.sent[1].chat = TELEGRAM_CHAT_ID
        /\ ret.sent[1].param = DEFAULT_THRESHOLD * Scale
        /\ IF DefaultQualifying = <<>>
           THEN ret.sent[1].kind = "no_sellers" /\ ret.sent[1].items = <<>>
           ELSE ret.sent[1].kind = "sellers" /\ ret.sent[1].items # <<>>

\* a non-empty snapshot with nothing under the threshold: the notice went out
C6_Witness ==
    /\ ret.op = "periodic_send_default" /\ ret.fetch = "ok"
    /\ market # <<>> /\ DefaultQualifying = <<>>
    /\ Len(ret.sent) = 1 /\ ret.sent[1].kind = "no_sellers" /\ ret.sent[1].delivered

\* the integer an argument text of /topprices denotes
IntTexts ==
    { <<"3">>, <<"1", "5">>, <<"5", "0">>, <<"5", "1">>, <<"0">>, <<"-", "2">> }

IntOf(text) ==
    CASE text = <<"3">> -> 3
      [] text = <<"1", "5">> -> 15
      [] text = <<"5", "0">> -> 50
      [] text = <<"5", "1">> -> 51
      [] text = <<"0">> -> 0
      [] text = <<"-", "2">> -> 0 - 2

\* C7: the count of /topprices is in 1..50: an integer argument in 1..50 as
\* is, an integer outside it 10 with no warning, a non-integer 10 with
\* exactly one warning reply, no argument 10; every later message of the
\* command carries that count, and the command raises only when a
\* send_message call raised, never because of the argument.
C7_CountParsedAndClamped ==
    (ret.op = "topprices" /\ ret.update.chat # NoChat) =>
        LET u == ret.update
            warnings == Len(SentOf({"warning"}))
            expected == IF u.hasArg /\ u.arg \in IntTexts /\ IntOf(u.arg) \in 1..50
                        THEN IntOf(u.arg) ELSE 10
        IN  /\ ret.count \in 1..50
            /\ ret.count = expected
            /\ \A i \in DOMAIN ret.sent :
                   ret.sent[i].kind \in {"progress", "top_prices", "no_data"} =>
                       ret.sent[i].param = expected
            /\ warnings = IF u.hasArg /\ u.arg \notin IntTexts THEN 1 ELSE 0
            /\ warnings = 1 => /\ ret.sent[1].kind = "warning"
                               /\ ret.sent[1].chat = u.chat
            /\ (warnings = 1 /\ ret.sent[1].delivered) =>
                   /\ Len(ret.sent) >= 2
                   /\ ret.sent[2].kind = "progress"
            /\ ret.raised => ~ret.sent[Len(ret.sent)].delivered

\* "/topprices abc": warned, then the ranking of ten was sent
C7_Witness ==
    /\ ret.op = "topprices"
    /\ ret.update.arg = <<"a", "b", "c">>
    /\ Len(ret.sent) = 3
    /\ ret.sent[1].kind = "warning"
    /\ ret.sent[3].kind = "top_prices" /\ ret.sent[3].param = 10
    /\ ret.sent[3].delivered

\* C8: /topprices with count C over a snapshot with m parsable prices lists
\* min(C, m) listings, the C highest-priced of the snapshot.
C8_TopCOfWholeSnapshot ==
    (ret.op = "topprices" /\ ret.fetch = "ok" /\ SentOf(ListKinds) # <<>>) =>
        LET shown == SentOf(ListKinds)[1].items
            priced == {j \in DOMAIN market : market[j].price \in Numeric}
        IN  /\ Len(shown) = Min(ret.count, Cardinality(priced))
            /\ \A i \in DOMAIN shown : \A j \in priced :
                   (\A k \in DOMAIN shown : shown[k] # market[j]) =>
                       Worth(market[j].price) <= Worth(shown[i].price)

\* what a tick with no failure sends
ExpectedTick(op) ==
    LET q == DefaultQualifying
        to(kind, items) ==
            <<[chat |-> TELEGRAM_CHAT_ID, kind |-> kind, items |-> items,
               param |-> DEFAULT_THRESHOLD * Scale, delivered |-> TRUE]>>
    IN  IF op = "periodic_send_default"
        THEN IF q = <<>> THEN to("no_sellers", <<>>)
             ELSE to("sellers", SubSeq(q, 1, Min(DefaultLimit, Len(q))))
        ELSE IF q = <<>> THEN <<>> ELSE to("sellers", <<q[1]>>)

\* a tick ends normally whatever failed in it: nothing is raised, the failure
\* is logged once, and no send is repeated
C9_TickEndsNormally ==
    ret.op \in Ticks =>
        /\ ~ret.raised
        /\ Len(ret.sent) <= 1
        /\ ret.fetch = "failed" => ret.sent = <<>>
        /\ ret.errors =
               IF ret.fetch = "failed" \/ (ret.sent # <<>> /\ ~ret.sent[1].delivered)
               THEN 1 ELSE 0

\* a tick of either loop that follows a failed tick and has no failure of its
\* own sends what a tick sends
C9_NextTickUnaffected ==
    (ret.op \in Ticks /\ ret.errors > 0 /\ ret'.op \in Ticks /\ ret'.errors = 0) =>
        ret'.sent = ExpectedTick(ret'.op)

\* C9: no exception of a periodic tick (fetch, filter, render, delivery)
\* leaves periodic_send_default or threshold_check_task: it is logged, the
\* tick ends normally, delivery is not retried, and the ticks that follow, of
\* the same loop or the other, run as if it had not happened.
C9_TickFailureContained == [][C9_TickEndsNormally' /\ C9_NextTickUnaffected]_vars

\* a tick whose delivery failed: logged, not raised, not retried
C9_Witness ==
    /\ ret.op \in Ticks
    /\ Len(ret.sent) = 1 /\ ~ret.sent[1].delivered
    /\ ret.errors = 1 /\ ~ret.raised

\* C10: when the fetch fails in /top5 or /topprices the handler sends exactly
\* one error reply to the invoking chat, after the progress message, sends
\* no seller list and returns without raising; when it fails in a periodic
\* tick no message is sent.
C10_FetchFailureReported ==
    /\ (ret.op \in Commands /\ ret.fetch = "failed") =>
           LET n == Len(ret.sent)
           IN  /\ Len(SentOf({"error"})) = 1
               /\ n >= 2
               /\ ret.sent[n].kind = "error" /\ ret.sent[n].chat = ret.update.chat
               /\ ret.sent[n - 1].kind = "progress"
               /\ SentOf(ListKinds) = <<>>
               /\ ~ret.raised
    /\ (ret.op \in Ticks /\ ret.fetch = "failed") => ret.sent = <<>>

====
